---- MODULE Spec2Model ----
(***************************************************************************)
(* Chunked raster-to-table pipeline of bioloop:                            *)
(*   src/data_processer_4.py  SingleYearCDLProcessor (scan, checkpoint)    *)
(*   src/merge_chunk.py       merge_chunks (validate, merge, verify, clean)*)
(* The file system (checkpoint file, chunk files, quarantine directory,    *)
(* final artifacts) is the shared state; every process keeps its locals.   *)
(* A process may be killed between any two file-system effects.            *)
(* Specifications:                                                         *)
(*   Spec         scan runs and merges, one process at a time, with kills  *)
(*                and exceptions                                           *)
(*   SpecTracker  save_progress and load_progress alone                    *)
(*   SpecRun      one run of process() on larger grids, nothing failing    *)
(*   SpecRace     two scan processes of one year at once                   *)
(*   SpecYear     the variant pipeline of src/data_processor_2.py:          *)
(*                CaliforniaCDLProcessor.process_single_year and            *)
(*                merge_year_chunks, with kills and exceptions              *)
(***************************************************************************)
EXTENDS Integers, Sequences, FiniteSets, TLC

\* ------------------------------------------------------------------ bounds
MaxHeight == 2
MaxWidth == 2
MaxChunkSize == 2
MaxChunkArg == 4
MaxRunDim == 4

\* The scan processes.  Spec runs one process at a time (single writer),
\* SpecRace both.
Procs == {1, 2}
Scanners == {1}

\* ------------------------------------------------------- program constants
\* CA_BOUNDS in the raster's own coordinate system (get_ca_bounds_5070),
\* scaled to the sample rasters: one column wide, two rows high.
CA_WEST == 1
CA_EAST == 1
CA_NORTH == 0
CA_SOUTH == -1
\* A crop code of CDL_CROP_MAPPING (36: "Alfalfa"); 0 is "Background".
ALFALFA == 36
BACKGROUND == 0

VARIABLES
  height, width,    \* src.height, src.width of the year's raster
  chunk_size,       \* self.chunk_size
  raster,           \* which sample raster the .tif holds
  chunksDir,        \* chunks_dir exists
  ckpt,             \* progress.json: [st, last_chunk, status]
  chunkFiles,       \* chunk number -> chunk_NNNNN.csv.gz in chunks_dir
  corrupted,        \* chunk numbers of the files in chunks_dir/corrupted
  finalCsv,         \* final/cdl_california_<year>.csv.gz exists
  finalH5,          \* final/cdl_california_<year>.h5
  pc,               \* per scan process: position in __init__/process()
  progress,         \* per scan process: self.progress
  start_chunk, chunk_num, y, x, chunk_df,   \* locals of process()
  reads,            \* history: per process, per window, reads in this run
  overwrote,        \* history: this run opened a file over an existing one
  settled,          \* history: windows extracted and, if non-empty, written
  failedReads,      \* history: windows with qualifying cells whose read raised
  mpc,              \* merge_chunks: position
  chunks, mi, valid_chunks, total_records, verification_successful,
  appended,         \* history: chunk numbers whose rows store.append took
  mlog,             \* log lines of the current merge_chunks call
  ckptAtMerge,      \* history: progress.json as it was when the call began
  prevLoad, lastLoad,   \* history: the last two values load_progress gave
  savesAscend,          \* history: no save_progress below the persisted value
  ckptMax,          \* history: highest last_chunk persisted in chunks_dir
  overlap,          \* history: two scan processes were alive at once
  tiles,            \* history: the windows one walk of the loops generated
  year_pc,          \* CaliforniaCDLProcessor.process_single_year: position
  year_chunk_num, year_y, year_x,   \* locals of process_single_year
  yearChunkFiles,   \* chunk number -> ca_cdl_data_<year>_chunk_NNNNN.csv
  year_chunks, dfs, \* locals of merge_year_chunks: chunks left, frames read
  yearCsv,          \* processed_data/ca_cdl_data_<year>.csv
  unlinked          \* history: chunk numbers this run's merge has unlinked

scanVars == <<pc, progress, start_chunk, chunk_num, y, x, chunk_df, reads,
             overwrote>>
mergeVars == <<mpc, chunks, mi, valid_chunks, total_records,
               verification_successful, appended, mlog, ckptAtMerge>>
fsVars == <<chunksDir, ckpt, chunkFiles, corrupted, finalCsv, finalH5>>
inputVars == <<height, width, chunk_size, raster>>
trackerVars == <<prevLoad, lastLoad, savesAscend>>
histVars == <<settled, failedReads, ckptMax>>
raceVars == <<overlap, tiles>>
yearVars == <<year_pc, year_chunk_num, year_y, year_x, yearChunkFiles,
              year_chunks, dfs, yearCsv, unlinked>>
vars == <<inputVars, fsVars, scanVars, histVars, mergeVars, trackerVars,
          raceVars, yearVars>>

\* ------------------------------------------------------------ the raster
\* Only the cells inside CA_BOUNDS can qualify; the four sample rasters give
\* every combination of crop and background on the first two rows of them.
Rasters == {"crop", "background", "checker", "stripes"}

Min(a, b) == IF a <= b THEN a ELSE b
Max(a, b) == IF a >= b THEN a ELSE b

\* src.read(1, window): the category code of one cell.
CellValue(r, c) ==
  CASE raster = "crop" -> ALFALFA
    [] raster = "background" -> BACKGROUND
    [] raster = "checker" -> IF (r + c) % 2 = 0 THEN ALFALFA ELSE BACKGROUND
    [] OTHER -> IF r % 2 = 0 THEN ALFALFA ELSE BACKGROUND

\* rasterio.transform.xy(src.transform, row, col): north-up affine transform.
xy(r, c) == <<c, 0 - r>>

\* Mutant of is_in_california: the bounds themselves are outside.
is_in_california_Exclusive(px, py) ==
  /\ CA_WEST < px /\ px < CA_EAST
  /\ CA_SOUTH < py /\ py < CA_NORTH

is_in_california(px, py) ==
  /\ CA_WEST <= px /\ px <= CA_EAST
  /\ CA_SOUTH <= py /\ py <= CA_NORTH

\* total_chunks of process().
CeilDiv(a, b) == (a + b - 1) \div b
TotalChunks == CeilDiv(height, chunk_size) * CeilDiv(width, chunk_size)
ChunkNums == 1..TotalChunks

\* Mutant of Window: the last window of a band is not clipped to the grid.
Window_Unclipped(wx, wy) ==
  [col_off |-> wx, row_off |-> wy, width |-> chunk_size,
   height |-> chunk_size]

\* Window(x, y, chunk_width, chunk_height).
Window(wx, wy) ==
  [col_off |-> wx, row_off |-> wy,
   width |-> Min(chunk_size, width - wx),
   height |-> Min(chunk_size, height - wy)]

WindowCells(w) ==
  {<<r, c>> : r \in w.row_off..(w.row_off + w.height - 1),
              c \in w.col_off..(w.col_off + w.width - 1)}

\* A DataFrame is its set of records <<row, col, crop_code>>; None is NoneDf.
NoneDf == [isNone |-> TRUE, rows |-> {}]
DataFrame(rows) == [isNone |-> FALSE, rows |-> rows]

\* Mutant of process_chunk: a read that raised is repeated and its records
\* are returned.
process_chunk_Retry(w, readOk) ==
  LET valid_mask == {cell \in WindowCells(w) :
                       /\ CellValue(cell[1], cell[2]) > 0
                       /\ is_in_california(xy(cell[1], cell[2])[1],
                                           xy(cell[1], cell[2])[2])}
  IN IF valid_mask = {} THEN NoneDf
     ELSE DataFrame({<<cell[1], cell[2], CellValue(cell[1], cell[2])>> :
                       cell \in valid_mask})

\* process_chunk(src, window); readOk = FALSE: src.read or a transform raises.
process_chunk(w, readOk) ==
  IF ~readOk THEN NoneDf
  ELSE LET valid_mask == {cell \in WindowCells(w) :
                            /\ CellValue(cell[1], cell[2]) > 0
                            /\ is_in_california(xy(cell[1], cell[2])[1],
                                                xy(cell[1], cell[2])[2])}
       IN IF valid_mask = {} THEN NoneDf
          ELSE DataFrame({<<cell[1], cell[2], CellValue(cell[1], cell[2])>> :
                            cell \in valid_mask})

\* ------------------------------------------------------------- the files
NoFile == [st |-> "none", rows |-> {}]
GoodFile(rows) == [st |-> "good", rows |-> rows]
\* A file cut short: "probefail" fails read_csv(nrows=1), "latefail" passes
\* the one-row probe and fails the full read.
TornStates == {"probefail", "latefail"}

NoCkpt == [st |-> "absent", last_chunk |-> 0, status |-> "processing"]
EmptyCkpt == [st |-> "empty", last_chunk |-> 0, status |-> "processing"]

DefaultProgress == [last_chunk |-> 0, status |-> "processing"]

\* Mutant of load_progress: the file is ignored.
load_progress_Fresh(file) == [last_chunk |-> 0, status |-> "processing"]

\* load_progress: the dict read from progress.json, or the default.
\* Only called on a file json.load can parse (st # "empty").
load_progress(file) ==
  IF file.st = "valid"
  THEN [last_chunk |-> file.last_chunk, status |-> file.status]
  ELSE DefaultProgress

\* Mutant of save_progress: the number of the chunk before is stored.
save_progress_Previous(pr, chunk) == [pr EXCEPT !.last_chunk = chunk - 1]

\* save_progress, line 204: self.progress['last_chunk'] = chunk.
save_progress(pr, chunk) == [pr EXCEPT !.last_chunk = chunk]

\* Mutant of json_dump: the checkpoint of the last window is written with
\* status "completed".
json_dump_Completed(pr) ==
  [st |-> "valid", last_chunk |-> pr.last_chunk,
   status |-> IF pr.last_chunk = TotalChunks THEN "completed" ELSE pr.status]

\* save_progress, line 206: json.dump(self.progress, f), file closed.
json_dump(pr) ==
  [st |-> "valid", last_chunk |-> pr.last_chunk, status |-> pr.status]

NoFinal == [exists |-> FALSE, rows |-> 0, hasData |-> FALSE, meta |-> FALSE,
            total_records |-> 0, num_chunks_processed |-> 0]

\* ---------------------------------------------------------------- states
\* "notfound": process() returned at line 317; "raised": process() raised.
Stopped == {"idle", "killed", "init_raised", "skipped", "notfound", "raised",
            "done"}
MStopped == {"idle", "killed", "raised", "nochunks", "returned"}

AllStopped == (\A q \in Procs : pc[q] \in Stopped) /\ mpc \in MStopped

\* Nothing has run yet: no chunks directory, no process, no merge.
InitState ==
  /\ chunksDir = FALSE
  /\ ckpt = NoCkpt
  /\ chunkFiles = [n \in ChunkNums |-> NoFile]
  /\ corrupted = {}
  /\ finalCsv = FALSE
  /\ finalH5 = NoFinal
  /\ pc = [p \in Procs |-> "idle"]
  /\ progress = [p \in Procs |-> DefaultProgress]
  /\ start_chunk = [p \in Procs |-> 0]
  /\ chunk_num = [p \in Procs |-> 0]
  /\ y = [p \in Procs |-> 0]
  /\ x = [p \in Procs |-> 0]
  /\ chunk_df = [p \in Procs |-> NoneDf]
  /\ reads = [p \in Procs |-> [n \in ChunkNums |-> 0]]
  /\ settled = {}
  /\ failedReads = {}
  /\ mpc = "idle"
  /\ chunks = <<>>
  /\ mi = 0
  /\ valid_chunks = <<>>
  /\ total_records = 0
  /\ verification_successful = FALSE
  /\ appended = {}
  /\ mlog = {}
  /\ ckptAtMerge = NoCkpt
  /\ prevLoad = 0
  /\ lastLoad = 0
  /\ savesAscend = TRUE
  /\ ckptMax = 0
  /\ overwrote = [p \in Procs |-> FALSE]
  /\ overlap = FALSE
  /\ tiles = <<>>
  /\ year_pc = "idle"
  /\ year_chunk_num = 0
  /\ year_y = 0
  /\ year_x = 0
  /\ yearChunkFiles = [n \in ChunkNums |-> NoFile]
  /\ year_chunks = <<>>
  /\ dfs = <<>>
  /\ yearCsv = NoFile
  /\ unlinked = {}

Init ==
  /\ height \in 1..MaxHeight
  /\ width \in 1..MaxWidth
  /\ chunk_size \in 1..MaxChunkSize
  /\ raster \in Rasters
  /\ InitState

\* The locals of a merge_chunks call that has ended and been forgotten.
ForgetMerge ==
  /\ mpc' = "idle"
  /\ chunks' = <<>>
  /\ mi' = 0
  /\ valid_chunks' = <<>>
  /\ total_records' = 0
  /\ verification_successful' = FALSE
  /\ appended' = {}
  /\ mlog' = {}
  /\ ckptAtMerge' = NoCkpt

\* The scan processes have ended and been forgotten.
ForgetScans ==
  /\ pc' = [p \in Procs |-> "idle"]
  /\ progress' = [p \in Procs |-> DefaultProgress]
  /\ start_chunk' = [p \in Procs |-> 0]
  /\ chunk_num' = [p \in Procs |-> 0]
  /\ y' = [p \in Procs |-> 0]
  /\ x' = [p \in Procs |-> 0]
  /\ chunk_df' = [p \in Procs |-> NoneDf]
  /\ reads' = [p \in Procs |-> [n \in ChunkNums |-> 0]]
  /\ overwrote' = [p \in Procs |-> FALSE]

\* The locals of a process that is not running.
ResetLocals(p) ==
  /\ start_chunk' = [start_chunk EXCEPT ![p] = 0]
  /\ chunk_num' = [chunk_num EXCEPT ![p] = 0]
  /\ y' = [y EXCEPT ![p] = 0]
  /\ x' = [x EXCEPT ![p] = 0]
  /\ chunk_df' = [chunk_df EXCEPT ![p] = NoneDf]

\* ------------------------------------------- SingleYearCDLProcessor.__init__
\* mkdir(parents=True, exist_ok=True) of chunks_dir, then load_progress();
\* json.load raises on an empty progress.json and the process ends.
InitProcessor(p) ==
  /\ pc[p] \in Stopped
  /\ chunksDir' = TRUE
  /\ IF ckpt.st = "empty"
     THEN /\ pc' = [pc EXCEPT ![p] = "init_raised"]
          /\ progress' = [progress EXCEPT ![p] = DefaultProgress]
     ELSE /\ pc' = [pc EXCEPT ![p] = "ready"]
          /\ progress' = [progress EXCEPT ![p] = load_progress(ckpt)]
  /\ ResetLocals(p)
  /\ reads' = [reads EXCEPT ![p] = [n \in ChunkNums |-> 0]]
  /\ overwrote' = [overwrote EXCEPT ![p] = FALSE]
  /\ ForgetMerge
  /\ overlap' = (overlap \/ \E q \in Procs \ {p} : pc[q] \notin Stopped)
  /\ UNCHANGED <<inputVars, ckpt, chunkFiles, corrupted, finalCsv, finalH5,
                 histVars, trackerVars, tiles, yearVars>>

\* main(): one processor is constructed when no other process is alive.
Construct(p) ==
  /\ AllStopped
  /\ InitProcessor(p)

\* process(), lines 309-312: the final file exists, return.
ProcessSkip(p) ==
  /\ pc[p] = "ready"
  /\ finalCsv
  /\ pc' = [pc EXCEPT ![p] = "skipped"]
  /\ UNCHANGED <<inputVars, fsVars, progress, start_chunk, chunk_num, y, x,
                 chunk_df, reads, overwrote, histVars, mergeVars, trackerVars,
                 raceVars, yearVars>>

\* process(), lines 314-317: the year's .tif is not there; logged, return.
ProcessNoSource(p) ==
  /\ pc[p] = "ready"
  /\ ~finalCsv
  /\ pc' = [pc EXCEPT ![p] = "notfound"]
  /\ UNCHANGED <<inputVars, fsVars, progress, start_chunk, chunk_num, y, x,
                 chunk_df, reads, overwrote, histVars, mergeVars, trackerVars,
                 raceVars, yearVars>>

\* process(), lines 323 and 359-361: rasterio.open raises; logged, raised
\* again.
OpenSourceRaises(p) ==
  /\ pc[p] = "ready"
  /\ ~finalCsv
  /\ pc' = [pc EXCEPT ![p] = "raised"]
  /\ UNCHANGED <<inputVars, fsVars, progress, start_chunk, chunk_num, y, x,
                 chunk_df, reads, overwrote, histVars, mergeVars, trackerVars,
                 raceVars, yearVars>>

\* process(), lines 314-330: the year's .tif is there and opens;
\* start_chunk from the loaded progress.
ProcessStart(p) ==
  /\ pc[p] = "ready"
  /\ ~finalCsv
  /\ start_chunk' = [start_chunk EXCEPT ![p] = progress[p].last_chunk]
  /\ chunk_num' = [chunk_num EXCEPT ![p] = 0]
  /\ y' = [y EXCEPT ![p] = 0]
  /\ x' = [x EXCEPT ![p] = 0]
  /\ pc' = [pc EXCEPT ![p] = "loop"]
  /\ UNCHANGED <<inputVars, fsVars, progress, chunk_df, reads, overwrote,
                 histVars, mergeVars, trackerVars, raceVars, yearVars>>

\* The two for loops: the next (y, x), or the end of the scan.
Advance(p) ==
  IF x[p] + chunk_size < width
  THEN /\ x' = [x EXCEPT ![p] = x[p] + chunk_size]
       /\ y' = y
       /\ pc' = [pc EXCEPT ![p] = "loop"]
  ELSE IF y[p] + chunk_size < height
  THEN /\ x' = [x EXCEPT ![p] = 0]
       /\ y' = [y EXCEPT ![p] = y[p] + chunk_size]
       /\ pc' = [pc EXCEPT ![p] = "loop"]
  ELSE /\ x' = x
       /\ y' = y
       /\ pc' = [pc EXCEPT ![p] = "done"]

\* Mutant of SkipTest: the resume test off by one.
SkipTest_Strict(num, start) == num < start

\* lines 335-338: chunk_num += 1; if chunk_num <= start_chunk: continue.
SkipTest(num, start) == num <= start

\* Mutant of LoopSkip: a skipped window is not counted.
LoopSkip_NoCount(p) ==
  /\ pc[p] = "loop"
  /\ SkipTest(chunk_num[p] + 1, start_chunk[p])
  /\ Advance(p)
  /\ UNCHANGED <<inputVars, fsVars, progress, start_chunk, chunk_num, chunk_df,
                 reads, overwrote, histVars, mergeVars, trackerVars, raceVars,
                 yearVars>>

LoopSkip(p) ==
  /\ pc[p] = "loop"
  /\ SkipTest(chunk_num[p] + 1, start_chunk[p])
  /\ chunk_num' = [chunk_num EXCEPT ![p] = chunk_num[p] + 1]
  /\ Advance(p)
  /\ UNCHANGED <<inputVars, fsVars, progress, start_chunk, chunk_df, reads,
                 overwrote, histVars, mergeVars, trackerVars, raceVars,
                 yearVars>>

\* Mutant of LoopExtract: an exception of the read leaves process_chunk.
LoopExtract_Raises(p) ==
  /\ pc[p] = "loop"
  /\ ~SkipTest(chunk_num[p] + 1, start_chunk[p])
  /\ \E readOk \in BOOLEAN :
       LET n == chunk_num[p] + 1
           df == process_chunk(Window(x[p], y[p]), readOk)
       IN /\ chunk_num' = [chunk_num EXCEPT ![p] = n]
          /\ chunk_df' = [chunk_df EXCEPT ![p] = df]
          /\ reads' = [reads EXCEPT ![p][n] = Min(@ + 1, 2)]
          /\ settled' = IF df.isNone THEN settled \cup {n} ELSE settled \ {n}
          /\ failedReads' =
               IF ~readOk /\ ~process_chunk(Window(x[p], y[p]), TRUE).isNone
               THEN failedReads \cup {n} ELSE failedReads \ {n}
          /\ pc' = [pc EXCEPT ![p] = IF readOk THEN "extracted" ELSE "raised"]
  /\ UNCHANGED <<inputVars, fsVars, progress, start_chunk, y, x, ckptMax,
                 overwrote, mergeVars, trackerVars, raceVars, yearVars>>

\* lines 335-347: chunk_num += 1; not skipped; chunk_df = process_chunk().
LoopExtract(p) ==
  /\ pc[p] = "loop"
  /\ ~SkipTest(chunk_num[p] + 1, start_chunk[p])
  /\ \E readOk \in BOOLEAN :
       LET n == chunk_num[p] + 1
           df == process_chunk(Window(x[p], y[p]), readOk)
       IN /\ chunk_num' = [chunk_num EXCEPT ![p] = n]
          /\ chunk_df' = [chunk_df EXCEPT ![p] = df]
          /\ reads' = [reads EXCEPT ![p][n] = Min(@ + 1, 2)]
          /\ settled' = IF df.isNone THEN settled \cup {n} ELSE settled \ {n}
          /\ failedReads' =
               IF ~readOk /\ ~process_chunk(Window(x[p], y[p]), TRUE).isNone
               THEN failedReads \cup {n} ELSE failedReads \ {n}
  /\ pc' = [pc EXCEPT ![p] = "extracted"]
  /\ UNCHANGED <<inputVars, fsVars, progress, start_chunk, y, x, ckptMax,
                 overwrote, mergeVars, trackerVars, raceVars, yearVars>>

\* Mutant of SaveChunkNone: a window without output leaves the checkpoint
\* alone.
SaveChunkNone_NoCheckpoint(p) ==
  /\ pc[p] = "extracted"
  /\ chunk_df[p].isNone \/ chunk_df[p].rows = {}
  /\ Advance(p)
  /\ UNCHANGED <<inputVars, fsVars, progress, start_chunk, chunk_num, chunk_df,
                 reads, overwrote, histVars, mergeVars, trackerVars, raceVars,
                 yearVars>>

\* lines 348-349 and save_chunk lines 215-216: nothing to write.
SaveChunkNone(p) ==
  /\ pc[p] = "extracted"
  /\ chunk_df[p].isNone \/ chunk_df[p].rows = {}
  /\ pc' = [pc EXCEPT ![p] = "checkpoint"]
  /\ UNCHANGED <<inputVars, fsVars, progress, start_chunk, chunk_num, y, x,
                 chunk_df, reads, overwrote, histVars, mergeVars, trackerVars,
                 raceVars, yearVars>>

\* Mutant of SaveChunkOpen: the checkpoint is saved before the chunk write.
SaveChunkOpen_Late(p) ==
  /\ pc[p] = "extracted"
  /\ ~(chunk_df[p].isNone \/ chunk_df[p].rows = {})
  /\ pc' = [pc EXCEPT ![p] = "checkpoint"]
  /\ UNCHANGED <<inputVars, fsVars, progress, start_chunk, chunk_num, y, x,
                 chunk_df, reads, overwrote, histVars, mergeVars, trackerVars,
                 raceVars, yearVars>>

\* save_chunk, lines 218-219: to_csv opens chunk_NNNNN.csv.gz for writing.
SaveChunkOpen(p) ==
  /\ pc[p] = "extracted"
  /\ ~(chunk_df[p].isNone \/ chunk_df[p].rows = {})
  /\ chunkFiles' = [chunkFiles EXCEPT ![chunk_num[p]] =
                      [st |-> "writing", rows |-> {}]]
  /\ overwrote' = [overwrote EXCEPT
                     ![p] = @ \/ chunkFiles[chunk_num[p]].st # "none"]
  /\ pc' = [pc EXCEPT ![p] = "writing"]
  /\ UNCHANGED <<inputVars, chunksDir, ckpt, corrupted, finalCsv, finalH5,
                 progress, start_chunk, chunk_num, y, x, chunk_df, reads,
                 settled, failedReads, ckptMax, mergeVars, trackerVars,
                 raceVars, yearVars>>

\* Mutant of SaveChunkClose: the file name does not depend on the chunk
\* number, every chunk goes to the first chunk's file.
SaveChunkClose_OneName(p) ==
  /\ pc[p] = "writing"
  /\ chunkFiles' = [chunkFiles EXCEPT ![chunk_num[p]] = NoFile,
                                      ![1] = GoodFile(chunk_df[p].rows)]
  /\ settled' = settled \cup {chunk_num[p]}
  /\ pc' = [pc EXCEPT ![p] = "checkpoint"]
  /\ UNCHANGED <<inputVars, chunksDir, ckpt, corrupted, finalCsv, finalH5,
                 progress, start_chunk, chunk_num, y, x, chunk_df, reads,
                 failedReads, ckptMax, overwrote, mergeVars, trackerVars,
                 raceVars, yearVars>>

\* save_chunk, line 219: to_csv has written every row and closed the file.
SaveChunkClose(p) ==
  /\ pc[p] = "writing"
  /\ chunkFiles' = [chunkFiles EXCEPT ![chunk_num[p]] =
                      GoodFile(chunk_df[p].rows)]
  /\ settled' = settled \cup {chunk_num[p]}
  /\ pc' = [pc EXCEPT ![p] = "checkpoint"]
  /\ UNCHANGED <<inputVars, chunksDir, ckpt, corrupted, finalCsv, finalH5,
                 progress, start_chunk, chunk_num, y, x, chunk_df, reads,
                 failedReads, ckptMax, overwrote, mergeVars, trackerVars,
                 raceVars, yearVars>>

\* save_progress, lines 204-205: progress updated, open(..., 'w') truncates.
SaveProgressOpen(p) ==
  /\ pc[p] = "checkpoint"
  /\ progress' = [progress EXCEPT ![p] = save_progress(@, chunk_num[p])]
  /\ ckpt' = EmptyCkpt
  /\ pc' = [pc EXCEPT ![p] = "dumping"]
  /\ UNCHANGED <<inputVars, chunksDir, chunkFiles, corrupted, finalCsv,
                 finalH5, start_chunk, chunk_num, y, x, chunk_df, reads,
                 overwrote, histVars, mergeVars, trackerVars, raceVars,
                 yearVars>>

\* save_progress, line 206, then line 354 and the next loop iteration.
SaveProgressClose(p) ==
  /\ pc[p] = "dumping"
  /\ ckpt' = json_dump(progress[p])
  /\ ckptMax' = Max(ckptMax, progress[p].last_chunk)
  /\ chunk_df' = [chunk_df EXCEPT ![p] = NoneDf]
  /\ Advance(p)
  /\ UNCHANGED <<inputVars, chunksDir, chunkFiles, corrupted, finalCsv,
                 finalH5, progress, start_chunk, chunk_num, reads, settled,
                 failedReads, overwrote, mergeVars, trackerVars, raceVars,
                 yearVars>>

\* The process()'s locals are gone once it has been left.
LeaveProcess(p) ==
  /\ ResetLocals(p)
  /\ progress' = [progress EXCEPT ![p] = DefaultProgress]
  /\ reads' = [reads EXCEPT ![p] = [n \in ChunkNums |-> 0]]
  /\ overwrote' = [overwrote EXCEPT ![p] = FALSE]

\* save_chunk, line 219: to_csv raises, before the file is opened (the file
\* on disk stays as it was) or while it is written (the file is cut short);
\* nothing in process() catches it before lines 359-361.
SaveChunkRaises(p) ==
  /\ \/ /\ pc[p] = "extracted"
        /\ ~(chunk_df[p].isNone \/ chunk_df[p].rows = {})
        /\ chunkFiles' = chunkFiles
     \/ /\ pc[p] = "writing"
        /\ \E t \in TornStates :
             chunkFiles' = [chunkFiles EXCEPT ![chunk_num[p]] =
                              [st |-> t, rows |-> {}]]
  /\ pc' = [pc EXCEPT ![p] = "raised"]
  /\ LeaveProcess(p)
  /\ UNCHANGED <<inputVars, chunksDir, ckpt, corrupted, finalCsv, finalH5,
                 histVars, mergeVars, trackerVars, raceVars, yearVars>>

\* save_progress, lines 205-206: open(..., 'w') raises (progress.json stays
\* as it was) or json.dump raises after the truncation (it stays empty).
SaveProgressRaises(p) ==
  /\ pc[p] \in {"checkpoint", "dumping"}
  /\ pc' = [pc EXCEPT ![p] = "raised"]
  /\ LeaveProcess(p)
  /\ UNCHANGED <<inputVars, fsVars, histVars, mergeVars, trackerVars, raceVars,
                 yearVars>>

\* The process is killed.  A chunk file being written stays cut short; a
\* progress.json opened for writing stays empty.
Crash(p) ==
  /\ pc[p] \notin Stopped
  /\ pc' = [pc EXCEPT ![p] = "killed"]
  /\ IF pc[p] = "writing"
     THEN \E t \in TornStates :
            chunkFiles' = [chunkFiles EXCEPT ![chunk_num[p]] =
                             [st |-> t, rows |-> {}]]
     ELSE chunkFiles' = chunkFiles
  /\ LeaveProcess(p)
  /\ UNCHANGED <<inputVars, chunksDir, ckpt, corrupted, finalCsv, finalH5,
                 histVars, mergeVars, trackerVars, raceVars, yearVars>>

\* shutil.rmtree(chunks_dir): chunk files, progress.json and corrupted/.
\* Mutant of RemoveChunksDir: progress.json is kept outside the removed tree.
RemoveChunksDir_KeepsCheckpoint ==
  /\ chunksDir' = FALSE
  /\ ckpt' = ckpt
  /\ chunkFiles' = [n \in ChunkNums |-> NoFile]
  /\ corrupted' = {}
  /\ settled' = {}
  /\ failedReads' = {}
  /\ ckptMax' = ckptMax

RemoveChunksDir ==
  /\ chunksDir' = FALSE
  /\ ckpt' = NoCkpt
  /\ chunkFiles' = [n \in ChunkNums |-> NoFile]
  /\ corrupted' = {}
  /\ settled' = {}
  /\ failedReads' = {}
  /\ ckptMax' = 0

\* SingleYearCDLProcessor.merge_chunks (lines 272-304), called on a
\* processor whose scan is over (the call at line 357 is commented out):
\* every chunk read in full, the merged csv.gz written, the chunks
\* directory removed; any exception is logged only.
MergeMethod(p) ==
  /\ pc[p] = "done"
  /\ LET present == {n \in ChunkNums : chunkFiles[n].st # "none"}
     IN IF present = {} \/ \E n \in present : chunkFiles[n].st # "good"
        THEN UNCHANGED <<chunksDir, ckpt, chunkFiles, corrupted, finalCsv,
                         histVars>>
        ELSE /\ finalCsv' = TRUE
             /\ \E rmOk \in BOOLEAN :
                  IF rmOk
                  THEN RemoveChunksDir
                  ELSE UNCHANGED <<chunksDir, ckpt, chunkFiles, corrupted,
                                   histVars>>
  /\ pc' = [pc EXCEPT ![p] = "idle"]
  /\ ResetLocals(p)
  /\ UNCHANGED <<inputVars, finalH5, progress, reads, overwrote, mergeVars,
                 trackerVars, raceVars, yearVars>>

ScanStep(p) ==
  \/ Construct(p)
  \/ ProcessSkip(p)
  \/ ProcessNoSource(p)
  \/ OpenSourceRaises(p)
  \/ ProcessStart(p)
  \/ LoopSkip(p)
  \/ LoopExtract(p)
  \/ SaveChunkNone(p)
  \/ SaveChunkOpen(p)
  \/ SaveChunkClose(p)
  \/ SaveProgressOpen(p)
  \/ SaveProgressClose(p)
  \/ SaveChunkRaises(p)
  \/ SaveProgressRaises(p)
  \/ MergeMethod(p)
  \/ Crash(p)

\* ------------------------------------------------ merge_chunk.merge_chunks
\* sorted(chunks_dir.glob("chunk_*.csv.gz")): the files of chunks_dir itself.
SortedChunks ==
  LET Present(n) == chunkFiles[n].st # "none"
  IN SelectSeq([n \in ChunkNums |-> n], Present)

\* Mutant of validate_chunk_file: the probe catches nothing.
validate_chunk_file_Always(file) == file.st # "none"

\* validate_chunk_file: read_csv(filepath, compression='gzip', nrows=1).
validate_chunk_file(file) == file.st \in {"good", "latefail"}

\* shutil.move(chunk, corrupt_dir / chunk.name) inside try/except.
MoveToCorrupt(n, moveOk) ==
  IF moveOk
  THEN /\ chunkFiles' = [chunkFiles EXCEPT ![n] = NoFile]
       /\ corrupted' = corrupted \cup {n}
  ELSE UNCHANGED <<chunkFiles, corrupted>>

\* lines 38-56: corrupt_dir.mkdir(exist_ok=True) raises when chunks_dir is
\* missing; no chunk file: return.
MergeStart ==
  /\ AllStopped
  /\ mi' = 1
  /\ valid_chunks' = <<>>
  /\ total_records' = 0
  /\ verification_successful' = FALSE
  /\ appended' = {}
  /\ ckptAtMerge' = ckpt
  /\ IF ~chunksDir
     THEN /\ mpc' = "raised"
          /\ chunks' = <<>>
          /\ mlog' = {"critical_error"}
     ELSE /\ chunks' = SortedChunks
          /\ mpc' = IF SortedChunks = <<>> THEN "nochunks" ELSE "validating"
          /\ mlog' = IF SortedChunks = <<>> THEN {"no_chunks"} ELSE {}
  /\ ForgetScans
  /\ UNCHANGED <<inputVars, fsVars, histVars, trackerVars, raceVars, yearVars>>

\* lines 61-68: one iteration of the validation loop.
ValidateStep ==
  /\ mpc = "validating"
  /\ mi <= Len(chunks)
  /\ LET n == chunks[mi]
     IN IF validate_chunk_file(chunkFiles[n])
        THEN /\ valid_chunks' = Append(valid_chunks, n)
             /\ UNCHANGED <<chunkFiles, corrupted>>
        ELSE /\ valid_chunks' = valid_chunks
             /\ \E moveOk \in BOOLEAN : MoveToCorrupt(n, moveOk)
  /\ mi' = mi + 1
  /\ UNCHANGED <<inputVars, chunksDir, ckpt, finalCsv, finalH5, scanVars,
                 histVars, mpc, chunks, ckptAtMerge, total_records,
                 verification_successful, appended, mlog, trackerVars,
                 raceVars, yearVars>>

\* Mutant of OpenStore: the store is opened with mode='a', which keeps what
\* an earlier merge left in the file.
OpenStore_Append ==
  /\ mpc = "validating"
  /\ mi > Len(chunks)
  /\ total_records' = 0
  /\ finalH5' = IF finalH5.exists THEN finalH5
                ELSE [NoFinal EXCEPT !.exists = TRUE]
  /\ mi' = 1
  /\ mpc' = "merging"
  /\ UNCHANGED <<inputVars, chunksDir, ckpt, chunkFiles, corrupted, finalCsv,
                 scanVars, histVars, chunks, ckptAtMerge, valid_chunks,
                 verification_successful, appended, mlog, trackerVars,
                 raceVars, yearVars>>

\* lines 77-80: pd.HDFStore(final_file, mode='w') creates the file anew.
OpenStore ==
  /\ mpc = "validating"
  /\ mi > Len(chunks)
  /\ total_records' = 0
  /\ finalH5' = [NoFinal EXCEPT !.exists = TRUE]
  /\ mi' = 1
  /\ mpc' = "merging"
  /\ UNCHANGED <<inputVars, chunksDir, ckpt, chunkFiles, corrupted, finalCsv,
                 scanVars, histVars, chunks, ckptAtMerge, valid_chunks,
                 verification_successful, appended, mlog, trackerVars,
                 raceVars, yearVars>>

\* lines 84-93: read_csv in full, store.append, total_records += len(df).
AppendChunk(n) ==
  LET df == chunkFiles[n].rows
  IN /\ finalH5' = [finalH5 EXCEPT !.rows = @ + Cardinality(df),
                                   !.hasData = TRUE]
     /\ total_records' = total_records + Cardinality(df)
     /\ appended' = appended \cup {n}
     /\ UNCHANGED <<chunkFiles, corrupted>>

\* Mutant of FailChunk: the rows are counted before the append is known to
\* have worked.
FailChunk_Counted(n, written, moveOk) ==
  /\ finalH5' = [finalH5 EXCEPT !.rows = @ + written,
                                !.hasData = @ \/ written > 0]
  /\ MoveToCorrupt(n, moveOk)
  /\ total_records' = total_records + Cardinality(chunkFiles[n].rows)
  /\ UNCHANGED appended

\* lines 110-116: the read or the append raised; `written` rows had reached
\* the store; the file is moved to corrupt_dir if the move works.
FailChunk(n, written, moveOk) ==
  /\ finalH5' = [finalH5 EXCEPT !.rows = @ + written,
                                !.hasData = @ \/ written > 0]
  /\ MoveToCorrupt(n, moveOk)
  /\ UNCHANGED <<total_records, appended>>

\* lines 81-116: one iteration of the merge loop.
MergeStep ==
  /\ mpc = "merging"
  /\ mi <= Len(valid_chunks)
  /\ LET n == valid_chunks[mi]
     IN \/ /\ chunkFiles[n].st = "good"
           /\ AppendChunk(n)
        \/ /\ chunkFiles[n].st = "good"
           /\ \E written \in 0..Cardinality(chunkFiles[n].rows),
                 moveOk \in BOOLEAN : FailChunk(n, written, moveOk)
        \/ /\ chunkFiles[n].st # "good"
           /\ \E moveOk \in BOOLEAN : FailChunk(n, 0, moveOk)
  /\ mi' = mi + 1
  /\ UNCHANGED <<inputVars, chunksDir, ckpt, finalCsv, scanVars, histVars, mpc,
                 chunks, ckptAtMerge, valid_chunks, verification_successful,
                 mlog, trackerVars, raceVars, yearVars>>

\* Mutant of StoreMetadata: num_chunks_processed counts the chunks whose rows
\* were appended.
StoreMetadata_CountsAppended ==
  /\ mpc = "merging"
  /\ mi > Len(valid_chunks)
  /\ IF finalH5.hasData
     THEN /\ finalH5' = [finalH5 EXCEPT
                           !.meta = TRUE,
                           !.total_records = total_records,
                           !.num_chunks_processed = Cardinality(appended)]
          /\ mpc' = "verifying"
          /\ mlog' = mlog
     ELSE /\ finalH5' = finalH5
          /\ mpc' = "raised"
          /\ mlog' = mlog \cup {"critical_error"}
  /\ UNCHANGED <<inputVars, chunksDir, ckpt, chunkFiles, corrupted, finalCsv,
                 scanVars, histVars, chunks, ckptAtMerge, mi, valid_chunks,
                 total_records, verification_successful, appended, trackerVars,
                 raceVars, yearVars>>

\* lines 118-124: store.get_storer('data') raises KeyError when no append
\* created the table; the exception leaves merge_chunks (lines 163-167).
StoreMetadata ==
  /\ mpc = "merging"
  /\ mi > Len(valid_chunks)
  /\ IF finalH5.hasData
     THEN /\ finalH5' = [finalH5 EXCEPT
                           !.meta = TRUE,
                           !.total_records = total_records,
                           !.num_chunks_processed = Len(valid_chunks)]
          /\ mpc' = "verifying"
          /\ mlog' = mlog
     ELSE /\ finalH5' = finalH5
          /\ mpc' = "raised"
          /\ mlog' = mlog \cup {"critical_error"}
  /\ UNCHANGED <<inputVars, chunksDir, ckpt, chunkFiles, corrupted, finalCsv,
                 scanVars, histVars, chunks, ckptAtMerge, mi, valid_chunks,
                 total_records, verification_successful, appended, trackerVars,
                 raceVars, yearVars>>

\* Mutant of Verify: an error reopening the store leaves merge_chunks.
Verify_Raises ==
  /\ mpc = "verifying"
  /\ \E openOk \in BOOLEAN :
       IF ~openOk
       THEN /\ verification_successful' = FALSE
            /\ mlog' = mlog \cup {"critical_error"}
            /\ mpc' = "raised"
       ELSE /\ verification_successful' = (finalH5.rows = total_records)
            /\ mlog' = mlog \cup {IF finalH5.rows = total_records
                                  THEN "verification_successful"
                                  ELSE "verification_failed"}
            /\ mpc' = "cleanup"
  /\ UNCHANGED <<inputVars, fsVars, scanVars, histVars, chunks, ckptAtMerge,
                 mi, valid_chunks, total_records, appended, trackerVars,
                 raceVars, yearVars>>

\* lines 126-138: reopen the store and compare nrows with total_records.
Verify ==
  /\ mpc = "verifying"
  /\ \E openOk \in BOOLEAN :
       IF ~openOk
       THEN /\ verification_successful' = FALSE
            /\ mlog' = mlog \cup {"error_verifying"}
       ELSE IF finalH5.rows = total_records
       THEN /\ verification_successful' = TRUE
            /\ mlog' = mlog \cup {"verification_successful"}
       ELSE /\ verification_successful' = FALSE
            /\ mlog' = mlog \cup {"verification_failed"}
  /\ mpc' = "cleanup"
  /\ UNCHANGED <<inputVars, fsVars, scanVars, histVars, chunks, ckptAtMerge,
                 mi, valid_chunks, total_records, appended, trackerVars,
                 raceVars, yearVars>>

\* Mutant of Cleanup: the chunk directory is removed whatever the
\* verification found.
Cleanup_Unconditional ==
  /\ mpc = "cleanup"
  /\ RemoveChunksDir
  /\ mlog' = mlog \cup {"cleaned_up", "completed"}
  /\ mpc' = "returned"
  /\ UNCHANGED <<inputVars, finalCsv, finalH5, scanVars, chunks, ckptAtMerge,
                 mi, valid_chunks, total_records, verification_successful,
                 appended, trackerVars, raceVars, yearVars>>

\* lines 140-161: clean up only if verification was successful; return.
Cleanup ==
  /\ mpc = "cleanup"
  /\ IF verification_successful
     THEN \E rmOk \in BOOLEAN :
            IF rmOk
            THEN /\ RemoveChunksDir
                 /\ mlog' = mlog \cup {"cleaned_up", "completed"}
            ELSE /\ UNCHANGED <<chunksDir, ckpt, chunkFiles, corrupted,
                                histVars>>
                 /\ mlog' = mlog \cup {"error_during_cleanup", "completed"}
     ELSE /\ UNCHANGED <<chunksDir, ckpt, chunkFiles, corrupted, histVars>>
          /\ mlog' = mlog \cup {"keeping_verification_failure", "completed"}
  /\ mpc' = "returned"
  /\ UNCHANGED <<inputVars, finalCsv, finalH5, scanVars, chunks, ckptAtMerge,
                 mi, valid_chunks, total_records, verification_successful,
                 appended, trackerVars, raceVars, yearVars>>

\* merge_chunks is killed; the store file stays as far as it was written.
MergeCrash ==
  /\ mpc \notin MStopped
  /\ mpc' = "killed"
  /\ chunks' = <<>>
  /\ mi' = 0
  /\ valid_chunks' = <<>>
  /\ total_records' = 0
  /\ verification_successful' = FALSE
  /\ appended' = {}
  /\ mlog' = {}
  /\ ckptAtMerge' = NoCkpt
  /\ UNCHANGED <<inputVars, fsVars, scanVars, histVars, trackerVars, raceVars,
                 yearVars>>

MergeNext ==
  \/ MergeStart
  \/ ValidateStep
  \/ OpenStore
  \/ MergeStep
  \/ StoreMetadata
  \/ Verify
  \/ Cleanup
  \/ MergeCrash

\* Between two runs (no process alive), a chunk file at rest is damaged on
\* disk (truncated or overwritten).
DamageChunk ==
  /\ AllStopped
  /\ \E n \in ChunkNums, t \in TornStates :
       /\ chunkFiles[n].st = "good"
       /\ chunkFiles' = [chunkFiles EXCEPT ![n] = [st |-> t, rows |-> {}]]
  /\ ForgetScans
  /\ ForgetMerge
  /\ UNCHANGED <<inputVars, chunksDir, ckpt, corrupted, finalCsv, finalH5,
                 histVars, trackerVars, raceVars, yearVars>>

Next ==
  \/ \E p \in Scanners : ScanStep(p)
  \/ MergeNext
  \/ DamageChunk

Spec == Init /\ [][Next]_vars

\* -------------------------------------------- the checkpoint tracker alone
\* save_progress(chunk) called with any argument, lines 202-206.
TrackerSave(p, chunk) ==
  /\ progress' = [progress EXCEPT ![p] = save_progress(@, chunk)]
  /\ ckpt' = json_dump(save_progress(progress[p], chunk))
  /\ savesAscend' = (savesAscend /\ chunk >= ckpt.last_chunk)
  /\ ckptMax' = Max(ckptMax, chunk)
  /\ UNCHANGED <<inputVars, chunksDir, chunkFiles, corrupted, finalCsv,
                 finalH5, pc, start_chunk, chunk_num, y, x, chunk_df, reads,
                 settled, failedReads, overwrote, mergeVars, prevLoad,
                 lastLoad, raceVars, yearVars>>

\* load_progress(), lines 194-200.
TrackerLoad(p) ==
  /\ progress' = [progress EXCEPT ![p] = load_progress(ckpt)]
  /\ prevLoad' = lastLoad
  /\ lastLoad' = load_progress(ckpt).last_chunk
  /\ UNCHANGED <<inputVars, fsVars, pc, start_chunk, chunk_num, y, x, chunk_df,
                 reads, overwrote, histVars, mergeVars, savesAscend, raceVars,
                 yearVars>>

InitTracker ==
  /\ Init
  /\ height = 1 /\ width = 1 /\ chunk_size = 1 /\ raster = "crop"

NextTracker ==
  \/ \E chunk \in 0..MaxChunkArg : TrackerSave(1, chunk)
  \/ TrackerLoad(1)

SpecTracker == InitTracker /\ [][NextTracker]_vars

\* ------------------------------- one run of process(), nothing going wrong
\* __init__ and process() up to line 330 on a new output directory.
RunBegin(p) ==
  /\ pc[p] = "idle"
  /\ chunksDir' = TRUE
  /\ progress' = [progress EXCEPT ![p] = load_progress(ckpt)]
  /\ start_chunk' = [start_chunk EXCEPT ![p] = load_progress(ckpt).last_chunk]
  /\ chunk_num' = [chunk_num EXCEPT ![p] = 0]
  /\ y' = [y EXCEPT ![p] = 0]
  /\ x' = [x EXCEPT ![p] = 0]
  /\ tiles' = <<>>
  /\ pc' = [pc EXCEPT ![p] = "loop"]
  /\ UNCHANGED <<inputVars, ckpt, chunkFiles, corrupted, finalCsv, finalH5,
                 chunk_df, reads, overwrote, histVars, mergeVars, trackerVars,
                 overlap, yearVars>>

\* lines 332-351, one iteration of the inner loop as a whole: the window,
\* process_chunk, save_chunk, save_progress; chunk_df is as at line 351.
RunWindow(p) ==
  /\ pc[p] = "loop"
  /\ ~SkipTest(chunk_num[p] + 1, start_chunk[p])
  /\ LET n == chunk_num[p] + 1
         window == Window(x[p], y[p])
         df == process_chunk(window, TRUE)
     IN /\ chunk_num' = [chunk_num EXCEPT ![p] = n]
        /\ tiles' = Append(tiles, window)
        /\ chunk_df' = [chunk_df EXCEPT ![p] = df]
        /\ reads' = [reads EXCEPT ![p][n] = Min(@ + 1, 2)]
        /\ chunkFiles' = IF df.isNone \/ df.rows = {} THEN chunkFiles
                         ELSE [chunkFiles EXCEPT ![n] = GoodFile(df.rows)]
        /\ settled' = settled \cup {n}
        /\ progress' = [progress EXCEPT ![p] = save_progress(@, n)]
        /\ ckpt' = json_dump(save_progress(progress[p], n))
        /\ ckptMax' = Max(ckptMax, n)
  /\ Advance(p)
  /\ UNCHANGED <<inputVars, chunksDir, corrupted, finalCsv, finalH5,
                 start_chunk, overwrote, failedReads, mergeVars, trackerVars,
                 overlap, yearVars>>

InitRun ==
  /\ height \in 1..MaxRunDim
  /\ width \in 1..MaxRunDim
  /\ chunk_size \in 1..MaxRunDim
  /\ raster \in Rasters
  /\ InitState

NextRun == RunBegin(1) \/ RunWindow(1)

SpecRun == InitRun /\ [][NextRun]_vars

\* ----------------------------- two scans of one year, nothing locking them
\* main() started twice for the same year and output directory: a processor
\* is constructed whatever the other process is doing.
RaceStep(p) ==
  \/ InitProcessor(p)
  \/ ProcessStart(p)
  \/ LoopSkip(p)
  \/ LoopExtract(p)
  \/ SaveChunkNone(p)
  \/ SaveChunkOpen(p)
  \/ SaveChunkClose(p)
  \/ SaveProgressOpen(p)
  \/ SaveProgressClose(p)
  \/ Crash(p)

\* One row of windows, each one cell.
InitRace ==
  /\ Init
  /\ height = 1
  /\ chunk_size = 1
  /\ raster \in {"crop", "background"}

NextRace == \E p \in Procs : RaceStep(p)

SpecRace == InitRace /\ [][NextRace]_vars

\* ------------------- CaliforniaCDLProcessor (src/data_processor_2.py)
\* The variant keeps its chunk files and the merged file in processed_data
\* and has no checkpoint.
YearStopped == {"idle", "skipped", "notfound", "failed", "killed", "done"}

\* A file cut short by an exception or a kill during to_csv.
PartialFile == [st |-> "partial", rows |-> {}]

\* process_chunk of the variant, lines 172-206: valid_mask = chunk_data > 0,
\* no region mask; None when the read raises.
year_process_chunk(w, readOk) ==
  IF ~readOk THEN NoneDf
  ELSE LET valid_mask == {cell \in WindowCells(w) :
                            CellValue(cell[1], cell[2]) > 0}
       IN IF valid_mask = {} THEN NoneDf
          ELSE DataFrame({<<cell[1], cell[2], CellValue(cell[1], cell[2])>> :
                            cell \in valid_mask})

\* The locals of a process_single_year call that has ended.
ForgetYear ==
  /\ year_chunk_num' = 0
  /\ year_y' = 0
  /\ year_x' = 0
  /\ year_chunks' = <<>>
  /\ dfs' = <<>>

\* lines 227-247: return None when the merged file exists or the .tif is
\* missing; otherwise open the raster and start the loops.
YearStart ==
  /\ year_pc \in YearStopped
  /\ unlinked' = {}
  /\ ForgetYear
  /\ IF yearCsv.st # "none"
     THEN year_pc' = "skipped"
     ELSE \E tifExists \in BOOLEAN :
            year_pc' = IF tifExists THEN "scan" ELSE "notfound"
  /\ UNCHANGED <<inputVars, fsVars, scanVars, histVars, mergeVars,
                 trackerVars, raceVars, yearChunkFiles, yearCsv>>

\* lines 249-266: one iteration of the loops: chunk_num += 1, the window,
\* process_chunk, save_chunk when the frame is not None.  to_csv raising
\* leaves process_single_year through its except (lines 273-277).
YearWindow ==
  /\ year_pc = "scan"
  /\ year_chunk_num' = year_chunk_num + 1
  /\ \E readOk \in BOOLEAN, writeOk \in BOOLEAN :
       LET chunk == year_process_chunk(Window(year_x, year_y), readOk)
           last == /\ year_x + chunk_size >= width
                   /\ year_y + chunk_size >= height
       IN IF ~chunk.isNone /\ ~writeOk
          THEN /\ yearChunkFiles' =
                    [yearChunkFiles EXCEPT ![year_chunk_num + 1] = PartialFile]
               /\ year_pc' = "failed"
               /\ UNCHANGED <<year_x, year_y>>
          ELSE /\ yearChunkFiles' =
                    IF chunk.isNone THEN yearChunkFiles
                    ELSE [yearChunkFiles EXCEPT
                            ![year_chunk_num + 1] = GoodFile(chunk.rows)]
               /\ year_pc' = IF last THEN "list" ELSE "scan"
               /\ year_x' = IF year_x + chunk_size < width
                            THEN year_x + chunk_size
                            ELSE IF last THEN year_x ELSE 0
               /\ year_y' = IF year_x + chunk_size < width \/ last
                            THEN year_y
                            ELSE year_y + chunk_size
  /\ UNCHANGED <<inputVars, fsVars, scanVars, histVars, mergeVars,
                 trackerVars, raceVars, year_chunks, dfs, yearCsv, unlinked>>

\* merge_year_chunks, lines 208-215: the sorted chunk files of the year;
\* none: return, and process_single_year returns True.
YearList ==
  /\ year_pc = "list"
  /\ LET Present(n) == yearChunkFiles[n].st # "none"
         found == SelectSeq([n \in ChunkNums |-> n], Present)
     IN /\ year_chunks' = found
        /\ year_pc' = IF found = <<>> THEN "done" ELSE "reading"
  /\ dfs' = <<>>
  /\ UNCHANGED <<inputVars, fsVars, scanVars, histVars, mergeVars,
                 trackerVars, raceVars, year_chunk_num, year_y, year_x,
                 yearChunkFiles, yearCsv, unlinked>>

\* Mutant of YearRead: the chunk file is kept until the merged file is
\* written.
YearRead_KeepsFile ==
  /\ year_pc = "reading"
  /\ year_chunks # <<>>
  /\ LET n == Head(year_chunks)
     IN \E readOk \in BOOLEAN :
          IF readOk
          THEN /\ dfs' = Append(dfs, yearChunkFiles[n].rows)
               /\ year_chunks' = Tail(year_chunks)
               /\ year_pc' = "reading"
               /\ UNCHANGED <<yearChunkFiles, unlinked, year_chunk_num,
                              year_y, year_x>>
          ELSE /\ year_pc' = "failed"
               /\ ForgetYear
               /\ UNCHANGED <<yearChunkFiles, unlinked>>
  /\ UNCHANGED <<inputVars, fsVars, scanVars, histVars, mergeVars,
                 trackerVars, raceVars, yearCsv>>

\* merge_year_chunks, lines 216-219: one iteration: read_csv, dfs.append,
\* chunk_file.unlink().  read_csv raising leaves process_single_year through
\* its except, the frames read so far with it.
YearRead ==
  /\ year_pc = "reading"
  /\ year_chunks # <<>>
  /\ LET n == Head(year_chunks)
     IN \E readOk \in BOOLEAN :
          IF readOk
          THEN /\ dfs' = Append(dfs, yearChunkFiles[n].rows)
               /\ yearChunkFiles' = [yearChunkFiles EXCEPT ![n] = NoFile]
               /\ unlinked' = unlinked \cup {n}
               /\ year_chunks' = Tail(year_chunks)
               /\ year_pc' = "reading"
               /\ UNCHANGED <<year_chunk_num, year_y, year_x>>
          ELSE /\ year_pc' = "failed"
               /\ ForgetYear
               /\ UNCHANGED <<yearChunkFiles, unlinked>>
  /\ UNCHANGED <<inputVars, fsVars, scanVars, histVars, mergeVars,
                 trackerVars, raceVars, yearCsv>>

\* merge_year_chunks, lines 221-224: pd.concat, then to_csv opens the merged
\* file; the open raising leaves no file.
YearWriteOpen ==
  /\ year_pc = "reading"
  /\ year_chunks = <<>>
  /\ \E openOk \in BOOLEAN :
       IF openOk
       THEN /\ yearCsv' = PartialFile
            /\ year_pc' = "writing"
            /\ UNCHANGED <<year_chunk_num, year_y, year_x, year_chunks, dfs>>
       ELSE /\ yearCsv' = yearCsv
            /\ year_pc' = "failed"
            /\ ForgetYear
  /\ UNCHANGED <<inputVars, fsVars, scanVars, histVars, mergeVars,
                 trackerVars, raceVars, yearChunkFiles, unlinked>>

\* The rows of pd.concat(dfs).
RECURSIVE Concat(_)
Concat(frames) ==
  IF frames = <<>> THEN {} ELSE Head(frames) \cup Concat(Tail(frames))

\* merge_year_chunks, lines 224-225, and lines 270-271: to_csv writes the
\* rows and closes the file, or raises part-way.
YearWriteClose ==
  /\ year_pc = "writing"
  /\ \E writeOk \in BOOLEAN :
       /\ yearCsv' = IF writeOk THEN GoodFile(Concat(dfs)) ELSE yearCsv
       /\ year_pc' = IF writeOk THEN "done" ELSE "failed"
  /\ ForgetYear
  /\ UNCHANGED <<inputVars, fsVars, scanVars, histVars, mergeVars,
                 trackerVars, raceVars, yearChunkFiles, unlinked>>

\* The process is killed; what it holds in memory is gone, the files stay
\* as they are.
YearCrash ==
  /\ year_pc \notin YearStopped
  /\ year_pc' = "killed"
  /\ ForgetYear
  /\ UNCHANGED <<inputVars, fsVars, scanVars, histVars, mergeVars,
                 trackerVars, raceVars, yearChunkFiles, yearCsv, unlinked>>

NextYear ==
  \/ YearStart
  \/ YearWindow
  \/ YearList
  \/ YearRead
  \/ YearWriteOpen
  \/ YearWriteClose
  \/ YearCrash

SpecYear == Init /\ [][NextYear]_vars

\* ------------------------------------------------------------ the claims
Range(seq) == {seq[i] : i \in 1..Len(seq)}

Running(p) == pc[p] \in {"loop", "extracted", "writing", "checkpoint",
                         "dumping"}

\* C1: the persisted checkpoint is never ahead of the written chunks: every
\* window numbered up to the persisted last_chunk has been extracted and, if
\* its extraction returned records, its chunk file has been written; a
\* process about to save the checkpoint has settled its window.  Crashes
\* between any two steps are part of the specification.
C1_CheckpointNotAhead ==
  /\ ckpt.st = "valid" => \A n \in 1..ckpt.last_chunk : n \in settled
  /\ \A p \in Procs :
       pc[p] \in {"checkpoint", "dumping"} => chunk_num[p] \in settled

\* C1 witness: after a crash, a checkpoint of 2 or more covering a written
\* chunk file and a window that produced none.
C1_Witness ==
  /\ pc[1] = "killed"
  /\ ckpt.st = "valid" /\ ckpt.last_chunk >= 2
  /\ \E n \in 1..ckpt.last_chunk : chunkFiles[n].st = "good"
  /\ \E n \in 1..ckpt.last_chunk : chunkFiles[n].st = "none"

\* C2: in a run of process(), a window numbered at or below the loaded
\* checkpoint is never read, written or checkpointed; a window above it is
\* read at most once, and exactly once when the run completes.
C2_ResumeSkips ==
  \A p \in Procs :
    /\ pc[p] = "ready" => progress[p] = load_progress(ckpt)
    /\ Running(p) \/ pc[p] = "done" =>
         \A n \in ChunkNums :
           /\ n <= start_chunk[p] => reads[p][n] = 0
           /\ reads[p][n] <= 1
    /\ pc[p] \in {"extracted", "writing", "checkpoint", "dumping"} =>
         chunk_num[p] > start_chunk[p]
    /\ pc[p] = "done" =>
         \A n \in ChunkNums : n > start_chunk[p] => reads[p][n] = 1

\* C2 witness: a resumed run that skipped some windows, read the others and
\* completed.
C2_Witness ==
  /\ pc[1] = "done"
  /\ start_chunk[1] >= 1
  /\ start_chunk[1] < TotalChunks
  /\ \E n \in ChunkNums : reads[1][n] = 1

\* The window that the scan numbers n (row-major, 1-based).
WindowOf(n) ==
  LET cols == CeilDiv(width, chunk_size)
  IN Window(((n - 1) % cols) * chunk_size, ((n - 1) \div cols) * chunk_size)

\* The chunk files one uninterrupted run leaves when no read raises.
UninterruptedFiles ==
  [n \in ChunkNums |->
     IF process_chunk(WindowOf(n), TRUE).isNone THEN NoFile
     ELSE GoodFile(process_chunk(WindowOf(n), TRUE).rows)]

\* No read raised, no file was damaged or quarantined since the chunks
\* directory was created.
Undisturbed ==
  /\ failedReads = {}
  /\ corrupted = {}
  /\ \A n \in ChunkNums : chunkFiles[n].st \in {"none", "good"}

\* A completed run leaves the chunk files of an uninterrupted run.
CompletedRunFiles ==
  \A p \in Procs :
    pc[p] = "done" /\ Undisturbed => chunkFiles = UninterruptedFiles

\* C3: resume idempotence: after a kill at any point, the next run starts
\* from the persisted checkpoint and, run to completion, leaves exactly the
\* chunk files of one uninterrupted run.
C3_ResumeIdempotence ==
  /\ \A p \in Procs : pc[p] # "init_raised"
  /\ CompletedRunFiles

\* C5: a crash during save_progress leaves the complete old or the complete
\* new checkpoint: progress.json is empty only while a save is in progress.
C5_SaveCrashAtomic ==
  ckpt.st = "empty" => \E p \in Procs : pc[p] = "dumping"

\* C4 as stated: for any sequence of save_progress calls, with any arguments
\* in any order, a load never gives less than the load before it.
C4_LoadsNeverDecrease == lastLoad >= prevLoad

\* C4 amended: as long as no save_progress call was given an argument below
\* the value then persisted (process() saves chunk_num, which only grows), a
\* load never gives less than the load before it.
C4_AscendingSavesLoadsNeverDecrease == savesAscend => lastLoad >= prevLoad

\* C4 witness: two loads with ascending saves between them, the later load
\* greater than the earlier one.
C4_Witness == savesAscend /\ prevLoad >= 1 /\ lastLoad > prevLoad

\* The consolidated store of the year has been written and closed with its
\* metadata.
ArtifactProduced == finalH5.exists /\ finalH5.meta

\* C6: the final artifact is the idempotence marker: once merge_chunks has
\* produced it, no later step reads a window, opens a chunk file for
\* writing, opens the checkpoint for writing or rewrites the artifact.
C6_ArtifactStopsPipeline ==
  [][ArtifactProduced =>
       /\ \A p \in Procs : \A n \in ChunkNums : reads'[p][n] <= reads[p][n]
       /\ \A n \in ChunkNums :
            chunkFiles'[n].st = "writing" => chunkFiles[n].st = "writing"
       /\ ckpt'.st = "empty" => ckpt.st = "empty"
       /\ finalH5' = finalH5]_vars

\* C7: merge_chunks removes the chunk directory only in its cleanup step,
\* after the Verifying phase found the store's row count equal to the
\* running total; never before verification, never after a failed one.
C7_CleanupOnlyAfterVerification ==
  [][/\ mpc \in {"validating", "merging", "verifying"} =>
          chunksDir' = chunksDir
     /\ (mpc = "cleanup" /\ chunksDir /\ ~chunksDir') =>
          /\ verification_successful
          /\ "verification_successful" \in mlog
          /\ finalH5.rows = total_records]_vars

\* C7 witness: merge_chunks returned after removing the chunk directory.
C7_Witness ==
  /\ mpc = "returned"
  /\ "cleaned_up" \in mlog
  /\ ~chunksDir
  /\ ckpt.st = "absent"

RECURSIVE SumRows(_)
\* The number of rows of the chunk files numbered in S.
SumRows(S) ==
  IF S = {} THEN 0
  ELSE LET n == CHOOSE m \in S : TRUE
       IN Cardinality(chunkFiles[n].rows) + SumRows(S \ {n})

\* C8: merge accounting: the total_records written to the metadata is the
\* number of rows of exactly the chunk files whose rows were appended, and
\* when merge_chunks reaches cleanup after a successful verification it is
\* the store's row count; a quarantined chunk is no part of either.
C8_MergeAccounting ==
  /\ mpc \in {"verifying", "cleanup"} =>
       /\ finalH5.total_records = total_records
       /\ total_records = SumRows(appended)
       /\ appended \subseteq Range(valid_chunks)
       /\ \A n \in appended : chunkFiles[n].st = "good"
  /\ (mpc = "cleanup" /\ verification_successful) =>
       finalH5.rows = finalH5.total_records

\* C8 witness: cleanup reached after a successful verification of a merge
\* that appended one chunk and quarantined another.
C8_Witness ==
  /\ mpc = "cleanup"
  /\ verification_successful
  /\ appended # {}
  /\ \E n \in Range(chunks) : n \in corrupted /\ n \notin appended

\* C9: a failed verification (row-count mismatch or an error reopening the
\* store) raises nothing, leaves the chunk directory, the chunk files, the
\* quarantine and the checkpoint as they were, and merge_chunks returns with
\* a log line that a verified merge never has.
C9_FailedVerificationKeepsChunks ==
  [][/\ mpc = "verifying" => mpc' \in {"verifying", "cleanup", "killed"}
     /\ (mpc = "cleanup" /\ ~verification_successful) =>
          /\ mpc' \in {"cleanup", "returned", "killed"}
          /\ chunksDir'
          /\ ckpt' = ckpt
          /\ chunkFiles' = chunkFiles
          /\ corrupted' = corrupted
          /\ mpc' = "returned" => "keeping_verification_failure" \in mlog'
     /\ (mpc = "cleanup" /\ verification_successful /\ mpc' = "returned") =>
          /\ "keeping_verification_failure" \notin mlog'
          /\ "verification_successful" \in mlog']_vars

\* C9 witness: merge_chunks returned after a row-count mismatch, the chunk
\* directory and a valid checkpoint still in place.
C9_Witness ==
  /\ mpc = "returned"
  /\ ~verification_successful
  /\ "verification_failed" \in mlog
  /\ "keeping_verification_failure" \in mlog
  /\ chunksDir
  /\ ckpt.st = "valid"

\* The chunk numbers listed by the running merge that failed the probe.
Rejected == Range(chunks) \ Range(valid_chunks)

\* C10 as stated: every file that fails the probe is in quarantine and out
\* of the valid set and of total_records, and every file that passed the
\* probe is merged.
C10_CorruptionIsolation ==
  /\ mpc \in {"merging", "verifying", "cleanup"} =>
       /\ \A n \in Rejected :
            n \in corrupted /\ chunkFiles[n].st = "none" /\ n \notin appended
       /\ total_records = SumRows(appended)
  /\ mpc \in {"verifying", "cleanup"} =>
       \A n \in Range(valid_chunks) : n \in appended

\* C10 amended: every file that fails the probe is out of the valid set and
\* of total_records, and is in quarantine unless the move raised, in which
\* case it is still in the chunk directory; the valid set holds only files
\* that passed the probe, and what was appended is a readable file of it; a
\* merge run lists the files of the chunk directory itself, so none of the
\* files in quarantine.
C10_CorruptionIsolationBestEffort ==
  /\ mpc \in {"merging", "verifying", "cleanup"} =>
       /\ \A n \in Rejected :
            /\ n \notin appended
            /\ \/ n \in corrupted /\ chunkFiles[n].st = "none"
               \/ chunkFiles[n].st = "probefail"
       /\ \A n \in Range(valid_chunks) :
            chunkFiles[n].st \in {"good", "latefail", "none"}
       /\ \A n \in Range(valid_chunks) :
            chunkFiles[n].st = "none" => n \in corrupted /\ n \notin appended
       /\ \A n \in appended :
            n \in Range(valid_chunks) /\ chunkFiles[n].st = "good"
       /\ total_records = SumRows(appended)
  /\ (mpc = "validating" /\ mi = 1) =>
       \A n \in ChunkNums : n \in Range(chunks) <=> chunkFiles[n].st # "none"

\* C10 witness: the Merging phase is over; one listed file failed the probe
\* and is in quarantine, another was merged.
C10_Witness ==
  /\ mpc = "verifying"
  /\ \E n \in Rejected : n \in corrupted /\ chunkFiles[n].st = "none"
  /\ appended # {}

\* C11: a read or append failure of a chunk in the Merging phase never
\* aborts merge_chunks: with at least one chunk past the probe, the Merging
\* phase is left for the Verifying phase only (or by a kill), never by an
\* exception, whatever the number of chunks that failed.
C11_MergeFailureNeverAborts ==
  [][(mpc = "merging" /\ valid_chunks # <<>>) =>
       mpc' \in {"merging", "verifying", "killed"}]_vars

\* C12: the checkpoint is advanced after every non-skipped window, with or
\* without output: a window that gave no records writes no chunk file and
\* goes on to save_progress; the only way from a window's extraction back to
\* the loop is a completed save of its chunk number (a kill or an exception
\* of save_chunk or save_progress ends the run instead); the counter moves
\* without a save only over the windows the run skips.
C12_CheckpointAfterEveryWindow ==
  [][\A p \in Procs :
       /\ (pc[p] = "extracted" /\ chunk_df[p].isNone) =>
            /\ pc'[p] \in {"extracted", "checkpoint", "killed"}
            /\ chunkFiles' = chunkFiles
       /\ (pc[p] = "extracted" /\ ~chunk_df[p].isNone) =>
            pc'[p] \in {"extracted", "writing", "raised", "killed"}
       /\ pc[p] = "writing" =>
            pc'[p] \in {"writing", "checkpoint", "raised", "killed"}
       /\ pc[p] = "checkpoint" =>
            pc'[p] \in {"checkpoint", "dumping", "raised", "killed"}
       /\ (pc[p] = "dumping"
              /\ pc'[p] \notin {"dumping", "raised", "killed"}) =>
            /\ pc'[p] \in {"loop", "done"}
            /\ ckpt'.st = "valid"
            /\ ckpt'.last_chunk = chunk_num[p]
       /\ (pc[p] = "loop" /\ pc'[p] \in {"loop", "done"}
              /\ chunk_num'[p] # chunk_num[p]) =>
            chunk_num'[p] <= start_chunk[p]]_vars

\* C12 witness: the checkpoint was just saved for a window without any
\* qualifying cell and without chunk file, after a window that has one.
C12_Witness ==
  /\ pc[1] \in {"loop", "done"}
  /\ chunk_num[1] > start_chunk[1]
  /\ ckpt.st = "valid"
  /\ ckpt.last_chunk = chunk_num[1]
  /\ chunkFiles[chunk_num[1]].st = "none"
  /\ process_chunk(WindowOf(chunk_num[1]), TRUE).isNone
  /\ \E m \in 1..(chunk_num[1] - 1) : chunkFiles[m].st = "good"

\* C13: a failure while reading or transforming one window is isolated: the
\* extraction step never raises out of the loop, a window whose read raised
\* gives no output (None), and after the window's checkpoint save the loop
\* goes on with the next window in row-major order, ending only when the
\* last window is done.
C13_WindowFailureIsolated ==
  [][\A p \in Procs :
       /\ pc[p] = "loop" =>
            pc'[p] \in {"loop", "extracted", "done", "killed"}
       /\ (pc[p] = "loop" /\ pc'[p] = "extracted"
              /\ chunk_num'[p] \in failedReads') =>
            chunk_df'[p] = NoneDf
       /\ (pc[p] = "dumping" /\ pc'[p] \in {"loop", "done"}) =>
            IF chunk_num[p] < TotalChunks
            THEN /\ pc'[p] = "loop"
                 /\ chunk_num'[p] = chunk_num[p]
                 /\ Window(x'[p], y'[p]) = WindowOf(chunk_num[p] + 1)
            ELSE pc'[p] = "done"]_vars

\* C13 witness: a run from the first window completed although the read of
\* a window with qualifying cells raised; that window left no file and a
\* later window was read and written.
C13_Witness ==
  /\ pc[1] = "done"
  /\ start_chunk[1] = 0
  /\ \E n \in failedReads, m \in ChunkNums :
       /\ m > n
       /\ chunkFiles[n].st = "none"
       /\ reads[1][n] = 1
       /\ reads[1][m] = 1
       /\ chunkFiles[m].st = "good"

\* C14: a source grid that cannot be opened, or an exception of save_chunk
\* or save_progress, is not recovered: process() is left by the exception,
\* never by a plain return, and the persisted checkpoint is then the one
\* last saved, a file the next run can load.
C14_FatalErrorPropagates ==
  [][\A p \in Procs :
       /\ pc[p] = "ready" => pc'[p] # "notfound"
       /\ (pc[p] \notin Stopped /\ pc'[p] = "raised") =>
            /\ ckpt' = ckpt
            /\ ckpt.st # "empty"]_vars

\* The cells of the grid.
Grid == {<<r, c>> : r \in 0..(height - 1), c \in 0..(width - 1)}

\* C15: tiling completeness: the windows the scan loop generates never
\* overlap and never leave the grid; each is chunk_size high (wide) unless
\* it ends at the grid's last row (column), where it takes what remains;
\* when the loop is over every grid cell is in exactly one window and the
\* number of windows is ceil(height/chunk_size) * ceil(width/chunk_size),
\* the total_chunks of the code.
C15_TilingComplete ==
  /\ \A k \in 1..Len(tiles) :
       /\ WindowCells(tiles[k]) \subseteq Grid
       /\ tiles[k].height >= 1 /\ tiles[k].height <= chunk_size
       /\ tiles[k].width >= 1 /\ tiles[k].width <= chunk_size
       /\ tiles[k].height < chunk_size =>
            tiles[k].row_off + tiles[k].height = height
       /\ tiles[k].width < chunk_size =>
            tiles[k].col_off + tiles[k].width = width
       /\ \A j \in 1..(k - 1) :
            WindowCells(tiles[j]) \cap WindowCells(tiles[k]) = {}
  /\ pc[1] = "done" =>
       /\ \A cell \in Grid :
            Cardinality({k \in 1..Len(tiles) :
                           cell \in WindowCells(tiles[k])}) = 1
       /\ Len(tiles) = ((height + chunk_size - 1) \div chunk_size)
                         * ((width + chunk_size - 1) \div chunk_size)
       /\ Len(tiles) = TotalChunks

\* C15 witness: the loop is over on a grid that the chunk size divides in
\* neither direction, with two bands each way.
C15_Witness ==
  /\ pc[1] = "done"
  /\ height % chunk_size # 0 /\ height > chunk_size
  /\ width % chunk_size # 0 /\ width > chunk_size
  /\ Len(tiles) = 4

\* The cell's value is above 0 and its native coordinate is within the
\* region bounds, the bounds included.
Qualifies(r, c) ==
  /\ CellValue(r, c) > 0
  /\ xy(r, c)[1] >= CA_WEST /\ xy(r, c)[1] <= CA_EAST
  /\ xy(r, c)[2] >= CA_SOUTH /\ xy(r, c)[2] <= CA_NORTH

\* The records of a frame for one cell.
RecordsOf(df, r, c) == {rec \in df.rows : rec[1] = r /\ rec[2] = c}

\* C16: the extraction of a window gives exactly one record, with the
\* cell's code, for each cell of the window that qualifies and none for any
\* other cell; a window with no qualifying cell, so any window whose values
\* are all <= 0, gives no frame and no chunk file, and any other window's
\* chunk file holds the frame's records.
C16_ExtractionExact ==
  (pc[1] \in {"loop", "done"} /\ tiles # <<>>) =>
    LET window == tiles[Len(tiles)]
        df == chunk_df[1]
        n == chunk_num[1]
    IN /\ \A cell \in WindowCells(window) :
            /\ Cardinality(RecordsOf(df, cell[1], cell[2])) =
                 IF Qualifies(cell[1], cell[2]) THEN 1 ELSE 0
            /\ \A rec \in RecordsOf(df, cell[1], cell[2]) :
                 rec[3] = CellValue(cell[1], cell[2])
       /\ \A rec \in df.rows : <<rec[1], rec[2]>> \in WindowCells(window)
       /\ (\A cell \in WindowCells(window) :
             CellValue(cell[1], cell[2]) <= 0) =>
            /\ df.isNone \/ df.rows = {}
            /\ chunkFiles[n].st = "none"
       /\ IF \E cell \in WindowCells(window) : Qualifies(cell[1], cell[2])
          THEN chunkFiles[n] = GoodFile(df.rows)
          ELSE chunkFiles[n].st = "none"

\* C16 witness: the window just extracted holds a qualifying cell, a crop
\* cell outside the bounds and a background cell inside them; its chunk
\* file is written.
C16_Witness ==
  /\ pc[1] \in {"loop", "done"}
  /\ tiles # <<>>
  /\ LET window == tiles[Len(tiles)]
     IN /\ chunk_df[1].rows # {}
        /\ chunkFiles[chunk_num[1]].st = "good"
        /\ \E cell \in WindowCells(window) :
             /\ CellValue(cell[1], cell[2]) > 0
             /\ ~Qualifies(cell[1], cell[2])
        /\ \E cell \in WindowCells(window) :
             /\ CellValue(cell[1], cell[2]) <= 0
             /\ is_in_california(xy(cell[1], cell[2])[1],
                                 xy(cell[1], cell[2])[2])

\* The number of column bands: the least k with k * chunk_size >= width.
ColumnBands == CHOOSE k \in 1..width : /\ k * chunk_size >= width
                                       /\ (k - 1) * chunk_size < width

\* C17: chunk numbers follow the row-major scan order, 1-based and without
\* gaps, skipped windows counted too: in a fresh run and in a resumed one
\* the window of row band i and column band j has the chunk number
\* i * ceil(width/chunk_size) + j + 1, and the loop ends with the counter at
\* the number of windows.
C17_ChunkNumbering ==
  \A p \in Procs :
    /\ Running(p) =>
         /\ y[p] % chunk_size = 0 /\ y[p] < height
         /\ x[p] % chunk_size = 0 /\ x[p] < width
    /\ pc[p] \in {"extracted", "writing", "checkpoint", "dumping"} =>
         chunk_num[p] = (y[p] \div chunk_size) * ColumnBands
                          + (x[p] \div chunk_size) + 1
    /\ pc[p] = "loop" =>
         chunk_num[p] + 1 = (y[p] \div chunk_size) * ColumnBands
                              + (x[p] \div chunk_size) + 1
    /\ pc[p] = "done" => chunk_num[p] = TotalChunks

\* C17 witness: a resumed run has numbered a window of the second row band
\* and the second column band.
C17_Witness ==
  /\ pc[1] = "extracted"
  /\ start_chunk[1] >= 1
  /\ y[1] >= chunk_size /\ x[1] >= chunk_size
  /\ chunk_num[1] = ColumnBands + 2

\* The persisted checkpoint is below a value persisted before it.
CheckpointDecreased == ckpt.st = "valid" /\ ckpt.last_chunk < ckptMax

\* C18: with two scan runs of one year interleaved on one chunk directory
\* a checkpoint save can write a smaller chunk number than one persisted
\* before (the witness); the persisted checkpoint never decreases as long
\* as no two scan processes were alive at once.
C18_DecreaseOnlyWithTwoWriters == CheckpointDecreased => overlap

\* C18 witness: a process has just saved its chunk number and the
\* persisted checkpoint is now below the one another process had saved.
C18_Witness ==
  /\ CheckpointDecreased
  /\ overlap
  /\ \E p \in Procs :
       /\ pc[p] \in {"loop", "done"}
       /\ chunk_num[p] > start_chunk[p]
       /\ chunk_num[p] = ckpt.last_chunk

\* The checkpoint covers window n.
Checkpointed(n) == ckpt.st = "valid" /\ ckpt.last_chunk >= n

\* C19 as stated: once the checkpoint covers a window with qualifying cells
\* whose extraction failed, no chunk file holds records of the window's
\* cells and the merge appends none.
C19_FailedWindowInNoFile ==
  \A n \in failedReads :
    Checkpointed(n) => chunkFiles[n].rows = {} /\ n \notin appended

\* C19 amended: a window whose extraction failed gives None and no write,
\* and its chunk number is saved as the checkpoint; from then on no run
\* reads the window or opens its chunk file for writing as long as the
\* chunk directory is there, so a chunk file of the window, and what a
\* merge appends from it, is one that was on disk before the failed
\* extraction.
C19_FailedWindowNeverWritten ==
  [][/\ \A p \in Procs :
          /\ (pc[p] = "extracted" /\ chunk_num[p] \in failedReads) =>
               /\ chunk_df[p] = NoneDf
               /\ pc'[p] \in {"extracted", "checkpoint", "killed"}
               /\ chunkFiles' = chunkFiles
          /\ (pc[p] = "dumping" /\ pc'[p] \in {"loop", "done"}
                 /\ chunk_num[p] \in failedReads) =>
               /\ ckpt'.st = "valid"
               /\ ckpt'.last_chunk = chunk_num[p]
     /\ \A n \in failedReads :
          Checkpointed(n) =>
            /\ \A p \in Procs : reads'[p][n] <= reads[p][n]
            /\ chunkFiles'[n].st # "writing"
            /\ chunkFiles'[n].st = "good" => chunkFiles'[n] = chunkFiles[n]
            /\ n \in appended' => chunkFiles[n].st = "good"
            /\ n \in failedReads' \/ ~chunksDir']_vars

\* C19 witness: a resumed run has skipped a window with qualifying cells
\* whose extraction had failed, and completed; the window has no chunk file.
C19_Witness ==
  /\ pc[1] = "done"
  /\ \E n \in failedReads :
       /\ Checkpointed(n)
       /\ start_chunk[1] >= n
       /\ reads[1][n] = 0
       /\ chunkFiles[n].st = "none"
       /\ ~process_chunk(WindowOf(n), TRUE).isNone

\* The qualifying cells of the grid.
QualifyingCells == {cell \in Grid : Qualifies(cell[1], cell[2])}

\* The cells that the records of the chunk files numbered in S are about.
CellsIn(S) ==
  UNION {{<<rec[1], rec[2]>> : rec \in chunkFiles[n].rows} : n \in S}

\* C20: whatever kills, exceptions and resumed runs came before, every
\* record of a chunk file is about a qualifying cell of the one window its
\* number names and only a complete file holds records, so no two chunk
\* files hold the same cell; a merge therefore counts every cell at most
\* once: total_records is the number of distinct cells in the chunks it
\* appended and never more than the grid's qualifying cells.
C20_ExactlyOnceAcrossCrashes ==
  /\ \A n \in ChunkNums :
       /\ \A rec \in chunkFiles[n].rows :
            /\ chunkFiles[n].st = "good"
            /\ <<rec[1], rec[2]>> \in WindowCells(WindowOf(n))
            /\ Qualifies(rec[1], rec[2])
            /\ rec[3] = CellValue(rec[1], rec[2])
       /\ \A rec \in chunkFiles[n].rows :
            \A m \in ChunkNums \ {n} :
              \A other \in chunkFiles[m].rows :
                <<rec[1], rec[2]>> # <<other[1], other[2]>>
  /\ mpc \in {"merging", "verifying", "cleanup"} =>
       /\ total_records = Cardinality(CellsIn(appended))
       /\ total_records <= Cardinality(QualifyingCells)

\* C20 witness: a resumed run wrote the chunk file of a window again, over
\* the file that a run killed before its checkpoint save had left, and is
\* about to save the checkpoint.
C20_Witness ==
  /\ pc[1] = "checkpoint"
  /\ overwrote[1]
  /\ start_chunk[1] < chunk_num[1]
  /\ chunkFiles[chunk_num[1]] = GoodFile(chunk_df[1].rows)
  /\ chunk_df[1].rows # {}

\* C21: the final artifact file is created empty (mode='w' truncates) when the
\* Merging phase starts, before any chunk is appended; it exists through
\* Merging, Verifying and Cleaning, and no step removes it: not a failed
\* verification, not an exception, not a kill of merge_chunks.  (That its
\* existence implies neither a successful verification nor that every valid
\* chunk was appended is the witness.)
C21_ArtifactExistsFromMerging ==
  [][/\ (mpc = "validating" /\ mpc' = "merging")
          => finalH5' = [NoFinal EXCEPT !.exists = TRUE]
     /\ mpc' \in {"merging", "verifying", "cleanup"} => finalH5'.exists
     /\ finalH5.exists => finalH5'.exists]_vars

\* merge_chunks has returned after a failed verification, a chunk that had
\* passed the validation probe was not appended, and the artifact is there.
C21_Witness ==
  /\ mpc = "returned"
  /\ finalH5.exists
  /\ ~verification_successful
  /\ "keeping_verification_failure" \in mlog
  /\ Range(valid_chunks) \ appended # {}

\* merge_chunks began while progress.json held a last_chunk below the total
\* window count.
MergedBeforeScanEnd ==
  /\ ckptAtMerge.st = "valid"
  /\ ckptAtMerge.last_chunk < TotalChunks

\* C22: merge_chunks never reads the checkpoint.  Begun while the persisted
\* last_chunk is below the total window count, it appends only chunks of
\* windows the scan had reached (none beyond the window after last_chunk);
\* when it has cleaned up, the chunk directory, its chunk files and
\* progress.json are gone; a scan process constructed with no progress.json
\* holds the default checkpoint 0, and process() starts from the checkpoint
\* its constructor loaded.
C22_MergeIgnoresCheckpoint ==
  /\ (mpc \in {"merging", "verifying", "cleanup", "returned"}
        /\ MergedBeforeScanEnd)
       => \A n \in appended : n <= ckptAtMerge.last_chunk + 1
  /\ (mpc = "returned" /\ "cleaned_up" \in mlog)
       => /\ ~chunksDir
          /\ ckpt = NoCkpt
          /\ \A n \in ChunkNums : chunkFiles[n] = NoFile
  /\ \A p \in Scanners :
       /\ (pc[p] = "ready" /\ ckpt = NoCkpt) => progress[p] = DefaultProgress
       /\ (pc[p] = "loop" /\ chunk_num[p] = 0)
            => start_chunk[p] = progress[p].last_chunk

\* A merge begun over an unfinished scan has verified and cleaned up: the
\* checkpoint is gone, and a window the scan never reached has qualifying
\* cells, which the artifact lacks.
C22_Witness ==
  /\ mpc = "returned"
  /\ "cleaned_up" \in mlog
  /\ MergedBeforeScanEnd
  /\ ckptAtMerge.last_chunk >= 1
  /\ ckpt = NoCkpt
  /\ finalH5.meta
  /\ finalH5.rows < Cardinality({cell \in Grid : Qualifies(cell[1], cell[2])})
  /\ \E n \in ChunkNums :
       /\ n > ckptAtMerge.last_chunk + 1
       /\ ~process_chunk(WindowOf(n), TRUE).isNone

\* C23: the num_chunks_processed attached to the store is the number of
\* chunks that passed the validation probe (total_valid), whatever happened
\* to them in the Merging phase: it is never below the number of chunks
\* whose rows were appended, and it is above it exactly when a chunk that had
\* passed the probe failed in the merge loop.
C23_ChunksMergedCountsValidated ==
  (mpc \in {"verifying", "cleanup", "returned"} /\ finalH5.meta)
    => /\ finalH5.num_chunks_processed = Len(valid_chunks)
       /\ appended \subseteq Range(valid_chunks)
       /\ finalH5.num_chunks_processed >= Cardinality(appended)
       /\ (finalH5.num_chunks_processed > Cardinality(appended))
            <=> (Range(valid_chunks) \ appended # {})

\* A chunk passed the probe, failed in the merge loop and was quarantined;
\* the metadata counts it all the same.
C23_Witness ==
  /\ mpc = "verifying"
  /\ finalH5.meta
  /\ \E n \in Range(valid_chunks) : n \in corrupted /\ n \notin appended
  /\ finalH5.num_chunks_processed > Cardinality(appended)
  /\ finalH5.total_records = SumRows(appended)

\* C24: when process() has run to completion from a loaded checkpoint below
\* the total window count, progress.json holds last_chunk equal to the total
\* window count; and the status of the persisted checkpoint and of every
\* process's self.progress is "processing" in every state: no step of the
\* scan or of the merge writes another value.
C24_CompletedScanStillProcessing ==
  /\ \A p \in Scanners :
       (pc[p] = "done" /\ start_chunk[p] < TotalChunks)
         => /\ ckpt.st = "valid"
            /\ ckpt.last_chunk = TotalChunks
            /\ ckpt.status = "processing"
  /\ ckpt.status = "processing"
  /\ \A p \in Procs : progress[p].status = "processing"

\* A run resumed from a checkpoint strictly between 0 and the window count
\* has completed.
C24_Witness ==
  /\ pc[1] = "done"
  /\ start_chunk[1] >= 1
  /\ start_chunk[1] < TotalChunks
  /\ ckpt.st = "valid"
  /\ ckpt.last_chunk = TotalChunks
  /\ ckpt.status = "processing"

\* The records held by the files of processed_data: the chunk files and the
\* merged file once it is written in full.
YearRecords ==
  UNION {yearChunkFiles[n].rows : n \in ChunkNums}
    \cup (IF yearCsv.st = "good" THEN yearCsv.rows ELSE {})

\* C25: in merge_year_chunks a chunk file is unlinked in the iteration that
\* read it, while no merged file exists; no chunk file is removed in a step
\* that leaves a completely written merged file; and when the process is
\* killed or an exception ends it between the first unlink and the completed
\* write, the records of the frames it had read are in no file afterwards.
C25_ChunksDeletedBeforeMergedFile ==
  [][/\ (year_pc = "reading" /\ Len(dfs') = Len(dfs) + 1)
          => /\ yearChunkFiles'[Head(year_chunks)] = NoFile
             /\ yearCsv'.st = "none"
     /\ \A n \in ChunkNums :
          (yearChunkFiles[n] # NoFile /\ yearChunkFiles'[n] = NoFile)
            => yearCsv'.st # "good"
     /\ (year_pc \in {"reading", "writing"}
          /\ year_pc' \in {"killed", "failed"}
          /\ dfs # <<>>)
          => \A i \in 1..Len(dfs) :
               \A rec \in dfs[i] : rec \notin YearRecords']_vars

\* The process was killed after merge_year_chunks had unlinked a chunk that
\* held records; neither a chunk file nor a merged file holds them.
C25_Witness ==
  /\ year_pc = "killed"
  /\ yearCsv.st # "good"
  /\ \E n \in unlinked :
       /\ yearChunkFiles[n] = NoFile
       /\ year_process_chunk(WindowOf(n), TRUE).rows # {}
       /\ year_process_chunk(WindowOf(n), TRUE).rows \cap YearRecords = {}

====
